---- MODULE Spec2Model ----
(***************************************************************************)
(* Search coordination layer of nuclide-fuzzy-file-search-rpc:             *)
(* FuzzyFileSearchService.js (queryFuzzyFile, queryAllExistingFuzzyFile,   *)
(* disposeFuzzySearch) over the searchConfigCache LRU and the per-directory*)
(* backend registry of FileSearchProcess.                                  *)
(***************************************************************************)
EXTENDS Integers, Sequences, FiniteSets, TLC

\* ------------------------------------------------------------------------
\* Bounds of the model
\* ------------------------------------------------------------------------
\* Number of distinct root directories (NuclideUri keys).
NumDirs == 3
\* Capacity of searchConfigCache. The source sets max: 25; the model scales
\* it down so that NumDirs > CacheMax and eviction is reachable.
CacheMax == 2
\* Direct queryFuzzyFile invocations that may be in flight at once.
MaxCalls == 2
\* Direct queryFuzzyFile invocations issued in a run without queryAll.
MaxQueries == 4
\* Direct queryFuzzyFile invocations issued in a run with queryAll.
MaxTracked == 2
\* queryAllExistingFuzzyFile invocations issued in a run with queryAll.
MaxAggregates == 1
\* Scores a backend may attach to a result, and results per list.
MaxScore == 2
MaxResults == 2
\* Direct queryFuzzyFile invocations issued in a run whose callers vary the
\* query strings, ignored names and options they pass.
MaxVaried == 1
\* Distinct query strings and distinct ignoredNames lists callers pass.
MaxStrings == 2
MaxIgnored == 2

Dirs == 1..NumDirs
Slots == 1..MaxCalls
Scores == 1..MaxScore

\* FileSearchResult: {path, score}; the path is abstracted to its root.
Result(d, s) == [root |-> d, score |-> s]

RECURSIVE SeqsUpTo(_, _)
SeqsUpTo(S, n) ==
  IF n = 0 THEN {<<>>}
  ELSE LET shorter == SeqsUpTo(S, n - 1)
       IN  shorter \cup {Append(q, x) : q \in {r \in shorter : Len(r) = n - 1}, x \in S}

\* The result lists a backend (default or custom) may return for directory d.
ResultLists(d) == SeqsUpTo({Result(d, s) : s \in Scores}, MaxResults)

\* What the callers of a run do: [one: direct queryFuzzyFile invocations,
\* all: queryAll invocations, varied: whether the arguments vary].
Scenarios ==
  {[one |-> MaxQueries, all |-> 0, varied |-> FALSE],
   [one |-> MaxTracked, all |-> MaxAggregates, varied |-> FALSE],
   [one |-> MaxVaried, all |-> MaxAggregates, varied |-> TRUE]}

\* The arguments of queryFuzzyFile besides rootDirectory (lines 60-64);
\* queryRoot 0 and smartCase "undefined" stand for an absent option.
NoRequest ==
  [queryString |-> 0, ignoredNames |-> 0, queryRoot |-> 0, smartCase |-> "undefined"]

QueryStrings(varied) == IF varied THEN 1..MaxStrings ELSE {1}

IgnoredNames(varied) == IF varied THEN 1..MaxIgnored ELSE {1}

\* The requests a direct caller may make for directory d.
Requests(varied, d) ==
  {[queryString |-> q, ignoredNames |-> g, queryRoot |-> r, smartCase |-> c] :
     q \in QueryStrings(varied), g \in IgnoredNames(varied),
     r \in (IF varied THEN {0, d} ELSE {0}),
     c \in (IF varied THEN {"undefined", "true"} ELSE {"undefined"})}

\* ------------------------------------------------------------------------
\* State
\* ------------------------------------------------------------------------
VARIABLES
  searchConfigCache,  \* LRU: sequence of [key, value], most recently used first;
                      \* value k names the k-th promise getSearchConfig returned for key
  configPromises,     \* per directory, the state of each promise getSearchConfig returned
  evictions,          \* per directory, times its entry was evicted by capacity
  errorLog,           \* per directory, error diagnostics logged by the cache's dispose
  fileSearchCache,    \* Backend Registry: per directory, its current handle (0: none)
  handles,            \* per directory, the state of each handle ever constructed
  calls,              \* direct queryFuzzyFile invocations, per slot
  queryAll,           \* the queryAllExistingFuzzyFile invocation in flight
  budget              \* invocations the run may still issue: [one, all, varied]

vars == <<searchConfigCache, configPromises, evictions, errorLog, fileSearchCache,
          handles, calls, queryAll, budget>>

\* One queryFuzzyFile invocation.
\*  pc: idle | awaitConfig | awaitBackend | awaitQuery | awaitCustom | done | failed
IdleCall ==
  [pc |-> "idle", root |-> 0, promise |-> 0, handle |-> 0, via |-> "none",
   afterRemove |-> FALSE, request |-> NoRequest, result |-> <<>>]

IdleAll ==
  [pc |-> "idle", queryString |-> 0, ignoredNames |-> 0, directories |-> <<>>,
   branches |-> <<>>, result |-> <<>>]

\* ------------------------------------------------------------------------
\* searchConfigCache: lru-cache with max entries and a dispose callback
\* ------------------------------------------------------------------------
CacheKeys(cache) == {cache[i].key : i \in 1..Len(cache)}

CacheIndex(cache, d) == CHOOSE i \in 1..Len(cache) : cache[i].key = d

RemoveAt(s, i) == SubSeq(s, 1, i - 1) \o SubSeq(s, i + 1, Len(s))

\* The entry set() drops when the cache is over capacity: the tail of the list.
EvictNewest(cache) == 1
EvictIndex(cache) == Len(cache)

\* searchConfigCache.get(d) on a hit: the entry moves to the front.
CacheGet(cache, d) ==
  LET i == CacheIndex(cache, d) IN <<cache[i]>> \o RemoveAt(cache, i)

\* Whether get(d) returns a promise (searchConfigPromise != null, line 67).
AlwaysMiss(cache, d) == FALSE
CacheHas(cache, d) == d \in CacheKeys(cache)

\* searchConfigCache.set(d, promise), line 69, before the capacity is
\* enforced: the entry goes to the front.
SetAtTail(cache, d, k) ==
  SelectSeq(cache, LAMBDA e : e.key # d) \o <<[key |-> d, value |-> k]>>
CacheSet(cache, d, k) ==
  <<[key |-> d, value |-> k]>> \o SelectSeq(cache, LAMBDA e : e.key # d)

\* Lines 66-70, the sync prefix of queryFuzzyFile, on st = [cache, promises,
\* evictions, log]: get; on a miss getSearchConfig(d) and set, which evicts
\* the tail (and calls dispose, which logs) when the cache is over capacity.
Lookup(st, d) ==
  IF CacheHas(st.cache, d)
  THEN [st EXCEPT !.cache = CacheGet(st.cache, d),
                  !.value = st.cache[CacheIndex(st.cache, d)].value]
  ELSE LET k     == Len(st.promises[d]) + 1
           added == CacheSet(st.cache, d, k)
           over  == Len(added) > CacheMax
           e     == EvictIndex(added)
           out   == added[e].key
       IN  [cache     |-> IF over THEN RemoveAt(added, e) ELSE added,
            promises  |-> [st.promises EXCEPT ![d] = Append(@, "pending")],
            evictions |-> IF over THEN [st.evictions EXCEPT ![out] = @ + 1]
                                  ELSE st.evictions,
            log       |-> IF over THEN [st.log EXCEPT ![out] = @ + 1] ELSE st.log,
            value     |-> k]

CacheState ==
  [cache |-> searchConfigCache, promises |-> configPromises, evictions |-> evictions,
   log |-> errorLog, value |-> 0]

\* Whether disposeFuzzySearch(d) has disposed a handle of d.
Removed(d) == \E h \in 1..Len(handles[d]) : handles[d][h] = "disposed"

\* The call record after the sync prefix left the cache as st; afterRemove
\* notes that the call was issued after a removal of d.
Started(st, d, request) ==
  [IdleCall EXCEPT !.pc = "awaitConfig", !.root = d, !.promise = st.value,
                   !.afterRemove = Removed(d), !.request = request]

Install(st) ==
  /\ searchConfigCache' = st.cache
  /\ configPromises' = st.promises
  /\ evictions' = st.evictions
  /\ errorLog' = st.log

Init ==
  /\ searchConfigCache = <<>>
  /\ configPromises = [d \in Dirs |-> <<>>]
  /\ evictions = [d \in Dirs |-> 0]
  /\ errorLog = [d \in Dirs |-> 0]
  /\ fileSearchCache = [d \in Dirs |-> 0]
  /\ handles = [d \in Dirs |-> <<>>]
  /\ calls = [c \in Slots |-> IdleCall]
  /\ queryAll = IdleAll
  /\ budget \in Scenarios

\* queryFuzzyFile({rootDirectory: d, ...request}) called directly: lines
\* 66-70. The invocation takes the first free slot.
QueryFuzzyFile(c, d, request) ==
  /\ calls[c].pc = "idle"
  /\ \A b \in Slots : b < c => calls[b].pc # "idle"
  /\ budget.one > 0
  /\ budget' = [budget EXCEPT !.one = @ - 1]
  /\ LET st == Lookup(CacheState, d)
     IN  /\ Install(st)
         /\ calls' = [calls EXCEPT ![c] = Started(st, d, request)]
  /\ UNCHANGED <<fileSearchCache, handles, queryAll>>

\* The promise getSearchConfig returned settles.
ConfigSettle(d, k, outcome) ==
  /\ k \in 1..Len(configPromises[d])
  /\ configPromises[d][k] = "pending"
  /\ configPromises' = [configPromises EXCEPT ![d][k] = outcome]
  /\ UNCHANGED <<searchConfigCache, evictions, errorLog, fileSearchCache, handles,
                 calls, queryAll, budget>>

\* ------------------------------------------------------------------------
\* queryFuzzyFile after its first await, for direct calls and queryAll branches
\* ------------------------------------------------------------------------
CallIds ==
  {<<"one", c>> : c \in Slots} \cup {<<"all", i>> : i \in 1..Len(queryAll.branches)}

GetCall(id) == IF id[1] = "one" THEN calls[id[2]] ELSE queryAll.branches[id[2]]

SetCall(id, r) ==
  IF id[1] = "one"
  THEN calls' = [calls EXCEPT ![id[2]] = r] /\ UNCHANGED queryAll
  ELSE queryAll' = [queryAll EXCEPT !.branches[id[2]] = r] /\ UNCHANGED calls

\* A finished invocation: a direct call hands its outcome to its caller and
\* is over; a branch keeps it for Promise.all.
Finish(id, r) == SetCall(id, IF id[1] = "one" THEN IdleCall ELSE r)

\* await searchConfigPromise, line 71: the call resumes once the promise has
\* settled.
NoAwait(cfg) == TRUE
AwaitSearchConfig(cfg) == cfg # "pending"

\* Whether the await throws: the promise rejected, and so does queryFuzzyFile.
SwallowRejection(cfg) == FALSE
Rejects(cfg) == cfg = "rejected"

\* if (searchConfig.useCustomSearch), line 72.
NeverCustom(cfg) == FALSE
UseCustomSearch(cfg) == cfg = "custom"

\* fileSearchForDirectory(d, ignoredNames): the existing handle, or a new one
\* under construction that later callers share.
AlwaysConstruct(d) ==
  LET h == Len(handles[d]) + 1
  IN  [handle   |-> h,
       registry |-> [fileSearchCache EXCEPT ![d] = h],
       handles  |-> [handles EXCEPT ![d] = Append(@, "constructing")]]
FileSearchForDirectory(d) ==
  IF fileSearchCache[d] # 0
  THEN [handle |-> fileSearchCache[d], registry |-> fileSearchCache, handles |-> handles]
  ELSE LET h == Len(handles[d]) + 1
       IN  [handle   |-> h,
            registry |-> [fileSearchCache EXCEPT ![d] = h],
            handles  |-> [handles EXCEPT ![d] = Append(@, "constructing")]]

\* Lines 71-78: the await of the configuration settles; pick the strategy.
AfterConfig(id) ==
  LET call == GetCall(id)
      cfg  == configPromises[call.root][call.promise]
  IN  /\ call.pc = "awaitConfig"
      /\ AwaitSearchConfig(cfg)
      /\ IF Rejects(cfg)
         THEN /\ Finish(id, [call EXCEPT !.pc = "failed"])
              /\ UNCHANGED <<fileSearchCache, handles>>
         ELSE IF UseCustomSearch(cfg)
         THEN /\ SetCall(id, [call EXCEPT !.pc = "awaitCustom", !.via = "custom"])
              /\ UNCHANGED <<fileSearchCache, handles>>
         ELSE LET got == FileSearchForDirectory(call.root)
              IN  /\ fileSearchCache' = got.registry
                  /\ handles' = got.handles
                  /\ SetCall(id, [call EXCEPT !.pc = "awaitBackend",
                                              !.handle = got.handle])
      /\ UNCHANGED <<searchConfigCache, configPromises, evictions, errorLog, budget>>

\* Construction of a backend finishes: the handle is live, or construction
\* failed and the registry drops the entry.
BackendSettle(d, ok) ==
  /\ fileSearchCache[d] # 0
  /\ handles[d][fileSearchCache[d]] = "constructing"
  /\ handles' = [handles EXCEPT ![d][fileSearchCache[d]] = IF ok THEN "live" ELSE "failed"]
  /\ fileSearchCache' = IF ok THEN fileSearchCache ELSE [fileSearchCache EXCEPT ![d] = 0]
  /\ UNCHANGED <<searchConfigCache, configPromises, evictions, errorLog,
                 calls, queryAll, budget>>

\* Lines 75-82: the await of fileSearchForDirectory settles; search.query(...).
AfterBackend(id) ==
  LET call == GetCall(id)
      hs   == handles[call.root][call.handle]
  IN  /\ call.pc = "awaitBackend"
      /\ hs # "constructing"
      /\ IF hs = "failed"
         THEN Finish(id, [call EXCEPT !.pc = "failed"])
         ELSE SetCall(id, [call EXCEPT !.pc = "awaitQuery", !.via = "backend"])
      /\ UNCHANGED <<searchConfigCache, configPromises, evictions, errorLog,
                     fileSearchCache, handles, budget>>

\* The promise of search.query / searchConfig.search resolves with a list,
\* which queryFuzzyFile returns unmodified.
QuerySettle(id, res) ==
  LET call == GetCall(id)
  IN  /\ call.pc \in {"awaitQuery", "awaitCustom"}
      /\ res \in ResultLists(call.root)
      /\ Finish(id, [call EXCEPT !.pc = "done", !.result = res])
      /\ UNCHANGED <<searchConfigCache, configPromises, evictions, errorLog,
                     fileSearchCache, handles, budget>>

\* The promise of search.query / searchConfig.search rejects.
QueryFail(id) ==
  LET call == GetCall(id)
  IN  /\ call.pc \in {"awaitQuery", "awaitCustom"}
      /\ Finish(id, [call EXCEPT !.pc = "failed"])
      /\ UNCHANGED <<searchConfigCache, configPromises, evictions, errorLog,
                     fileSearchCache, handles, budget>>

\* ------------------------------------------------------------------------
\* queryAllExistingFuzzyFile
\* ------------------------------------------------------------------------
RECURSIVE DirSeq(_)
DirSeq(S) ==
  IF S = {} THEN <<>>
  ELSE LET m == CHOOSE x \in S : \A y \in S : x <= y
       IN  <<m>> \o DirSeq(S \ {m})

\* getExistingSearchDirectories(): the directories with a live handle.
GetExistingSearchDirectories ==
  DirSeq({d \in Dirs : fileSearchCache[d] # 0 /\ handles[d][fileSearchCache[d]] = "live"})

\* const directories = getExistingSearchDirectories(), line 90: the
\* directories come from the registry, not from searchConfigCache.
CachedDirectories == DirSeq(CacheKeys(searchConfigCache))
Directories == GetExistingSearchDirectories

\* The argument of a branch, lines 93-97: {ignoredNames, queryString,
\* rootDirectory}, neither queryRoot nor smartCase.
QueryRootRequest(rootDirectory, queryString, ignoredNames) ==
  [NoRequest EXCEPT !.queryString = queryString, !.ignoredNames = ignoredNames,
                    !.queryRoot = rootDirectory]
BranchRequest(rootDirectory, queryString, ignoredNames) ==
  [NoRequest EXCEPT !.queryString = queryString, !.ignoredNames = ignoredNames]

\* directories.map(rootDirectory => queryFuzzyFile({...})): the sync prefix of
\* each branch runs in turn, in the order of the directories.
RECURSIVE MapQueryFuzzyFile(_, _, _, _, _)
MapQueryFuzzyFile(st, dirs, queryString, ignoredNames, acc) ==
  IF dirs = <<>> THEN [st |-> st, branches |-> acc]
  ELSE LET d     == Head(dirs)
           after == Lookup(st, d)
           call  == Started(after, d, BranchRequest(d, queryString, ignoredNames))
       IN  MapQueryFuzzyFile(after, Tail(dirs), queryString, ignoredNames,
                             Append(acc, call))

\* (a, b) => b.score - a.score
AscendingCompare(a, b) == a.score - b.score
Compare(a, b) == b.score - a.score

\* Array.prototype.sort with the comparator, as an insertion sort.
RECURSIVE InsertSorted(_, _)
InsertSorted(x, s) ==
  IF s = <<>> THEN <<x>>
  ELSE IF Compare(Head(s), x) <= 0 THEN <<Head(s)>> \o InsertSorted(x, Tail(s))
  ELSE <<x>> \o s

RECURSIVE Sort(_)
Sort(s) ==
  IF s = <<>> THEN <<>>
  ELSE InsertSorted(s[Len(s)], Sort(SubSeq(s, 1, Len(s) - 1)))

\* [].concat(...aggregateResults)
RECURSIVE Concat(_)
Concat(lists) == IF lists = <<>> THEN <<>> ELSE Head(lists) \o Concat(Tail(lists))

\* Lines 100-105.
AlwaysSort(aggregateResults) == Sort(Concat(aggregateResults))
Aggregate(aggregateResults) ==
  IF Len(aggregateResults) = 1 THEN aggregateResults[1]
  ELSE Sort(Concat(aggregateResults))

\* Lines 90-99, up to the await of Promise.all.
QueryAllExistingFuzzyFile(queryString, ignoredNames) ==
  /\ queryAll.pc = "idle"
  /\ budget.all > 0
  /\ budget' = [budget EXCEPT !.all = @ - 1]
  /\ LET directories == Directories
         run == MapQueryFuzzyFile(CacheState, directories, queryString,
                                  ignoredNames, <<>>)
     IN  /\ Install(run.st)
         /\ queryAll' = [pc |-> "running", queryString |-> queryString,
                         ignoredNames |-> ignoredNames,
                         directories |-> directories,
                         branches |-> run.branches, result |-> <<>>]
  /\ UNCHANGED <<fileSearchCache, handles, calls>>

Branches == {queryAll.branches[i] : i \in 1..Len(queryAll.branches)}

\* Promise.all rejects once a branch has failed.
SkipFailed(branches) == FALSE
AnyRejected(branches) == \E i \in 1..Len(branches) : branches[i].pc = "failed"

\* Promise.all settles, and on success lines 100-105 build the result.
QueryAllSettle ==
  /\ queryAll.pc = "running"
  /\ IF AnyRejected(queryAll.branches)
     THEN queryAll' = [queryAll EXCEPT !.pc = "rejected"]
     ELSE /\ \A b \in Branches : b.pc = "done"
          /\ queryAll' =
               [queryAll EXCEPT
                  !.pc = "resolved",
                  !.result = Aggregate([i \in 1..Len(queryAll.branches) |->
                                           queryAll.branches[i].result])]
  /\ UNCHANGED <<searchConfigCache, configPromises, evictions, errorLog,
                 fileSearchCache, handles, calls, budget>>

\* The caller has the outcome and every branch has run to its end.
QueryAllReturn ==
  /\ queryAll.pc \in {"resolved", "rejected"}
  /\ \A b \in Branches : b.pc \in {"done", "failed"}
  /\ queryAll' = IdleAll
  /\ UNCHANGED <<searchConfigCache, configPromises, evictions, errorLog,
                 fileSearchCache, handles, calls, budget>>

\* ------------------------------------------------------------------------
\* disposeFuzzySearch
\* ------------------------------------------------------------------------
\* What disposeFuzzySearch does to searchConfigCache: nothing.
ClearOnDispose(cache, d) == SelectSeq(cache, LAMBDA e : e.key # d)
CacheAfterDispose(cache, d) == cache

\* What disposeSearchForDirectory(d) does to the registry: it drops d's entry.
KeepOnDispose(registry, d) == registry
RegistryAfterDispose(registry, d) == [registry EXCEPT ![d] = 0]

\* The state of a handle after dispose() was called on it.
Disposed(state) == IF state = "disposed" THEN "disposedTwice" ELSE "disposed"

\* Lines 121-123: disposeSearchForDirectory(d) drops and disposes d's handle.
DisposeFuzzySearch(d) ==
  /\ searchConfigCache' = CacheAfterDispose(searchConfigCache, d)
  /\ IF fileSearchCache[d] # 0
     THEN /\ fileSearchCache' = RegistryAfterDispose(fileSearchCache, d)
          /\ handles' = [handles EXCEPT ![d][fileSearchCache[d]] = Disposed(@)]
     ELSE UNCHANGED <<fileSearchCache, handles>>
  /\ UNCHANGED <<configPromises, evictions, errorLog, calls, queryAll, budget>>

\* The steps the callers do not take: pending promises settle and the
\* event loop resumes the functions awaiting them.
Progress ==
  \/ \E d \in Dirs, k \in 1..(MaxQueries + MaxTracked + MaxVaried + MaxAggregates),
        outcome \in {"default", "custom", "rejected"} : ConfigSettle(d, k, outcome)
  \/ \E id \in CallIds : AfterConfig(id)
  \/ \E d \in Dirs, ok \in BOOLEAN : BackendSettle(d, ok)
  \/ \E id \in CallIds : AfterBackend(id)
  \/ \E id \in CallIds, res \in UNION {ResultLists(d) : d \in Dirs} : QuerySettle(id, res)
  \/ \E id \in CallIds : QueryFail(id)
  \/ QueryAllSettle
  \/ QueryAllReturn

Next ==
  \/ \E c \in Slots, d \in Dirs :
       \E request \in Requests(budget.varied, d) : QueryFuzzyFile(c, d, request)
  \/ \E queryString \in QueryStrings(budget.varied),
        ignoredNames \in IgnoredNames(budget.varied) :
       QueryAllExistingFuzzyFile(queryString, ignoredNames)
  \/ \E d \in Dirs : DisposeFuzzySearch(d)
  \/ Progress

Spec == Init /\ [][Next]_vars

\* A run of one direct query and one queryAll with varied arguments, in
\* which every pending promise eventually settles and every function whose
\* await has settled is eventually resumed.
LiveInit ==
  /\ Init
  /\ budget = [one |-> MaxVaried, all |-> MaxAggregates, varied |-> TRUE]

LiveSpec == LiveInit /\ [][Next]_vars /\ WF_vars(Progress)

\* ------------------------------------------------------------------------
\* Properties
\* ------------------------------------------------------------------------
InFlight == {GetCall(id) : id \in CallIds} \ {IdleCall}

Awaiting(d) == {c \in InFlight : c.pc = "awaitConfig" /\ c.root = d}

Cached(d) == d \in CacheKeys(searchConfigCache)

CachedValue(d) == searchConfigCache[CacheIndex(searchConfigCache, d)].value

Pending(d) == {k \in 1..Len(configPromises[d]) : configPromises[d][k] = "pending"}

\* C1: as long as no entry of a directory was evicted, getSearchConfig was
\* invoked exactly once for it however many calls are awaiting its
\* configuration, and all of them await that one promise.
StampedeCollapse ==
  \A d \in Dirs :
    evictions[d] = 0 =>
      /\ Len(configPromises[d]) <= 1
      /\ \A c \in Awaiting(d) : Len(configPromises[d]) = 1 /\ c.promise = 1

\* Two direct calls on one directory await the same pending promise.
StampedeWitness ==
  \E d \in Dirs :
    /\ configPromises[d] = <<"pending">>
    /\ \A c \in Slots : calls[c].pc = "awaitConfig" /\ calls[c].root = d
                        /\ calls[c].promise = 1

\* C2: at most one configuration resolution is in flight per directory.
AtMostOneResolutionInFlight ==
  \A d \in Dirs : Cardinality(Pending(d)) <= 1

\* C3: a queryFuzzyFile for a directory whose cached promise has rejected
\* invokes getSearchConfig again.
RetryAfterRejection ==
  [][\A c \in Slots, d \in Dirs :
       (/\ Cached(d)
        /\ configPromises[d][CachedValue(d)] = "rejected"
        /\ calls[c].pc = "idle"
        /\ calls'[c].pc = "awaitConfig"
        /\ calls'[c].root = d)
       => Len(configPromises'[d]) = Len(configPromises[d]) + 1]_vars

Count(s, x) == Cardinality({i \in 1..Len(s) : s[i] = x})

Items(s) == {s[i] : i \in 1..Len(s)}

\* Every item occurs in t at least as often as in s.
SubBag(s, t) == \A x \in Items(s) : Count(s, x) <= Count(t, x)

SameBag(s, t) == SubBag(s, t) /\ SubBag(t, s)

ScoreDescending(s) == \A i \in 1..(Len(s) - 1) : s[i].score >= s[i + 1].score

BranchResults == [i \in 1..Len(queryAll.branches) |-> queryAll.branches[i].result]

Settled == queryAll.pc \in {"resolved", "rejected"}

\* C4: a settled queryAll over two or more directories in which one branch
\* succeeded and another failed has resolved, with the successful branch's
\* results in its list.
PartialFailureIsolation ==
  (/\ Settled
   /\ Len(queryAll.directories) >= 2
   /\ \E b \in Branches : b.pc = "done"
   /\ \E b \in Branches : b.pc = "failed")
  => /\ queryAll.pc = "resolved"
     /\ \A b \in Branches : b.pc = "done" => SubBag(b.result, queryAll.result)

\* C5: a queryAll over two or more directories that resolved returns a
\* permutation of the concatenated branch lists, ordered by score
\* non-increasing.
AggregationRanking ==
  (queryAll.pc = "resolved" /\ Len(queryAll.directories) >= 2)
  => /\ SameBag(queryAll.result, Concat(BranchResults))
     /\ ScoreDescending(queryAll.result)

\* A merge that had to reorder: the concatenation was not score-descending.
AggregationWitness ==
  /\ queryAll.pc = "resolved"
  /\ Len(queryAll.directories) >= 2
  /\ ~ScoreDescending(Concat(BranchResults))
  /\ Len(queryAll.result) > MaxResults

\* C6: a queryAll that found exactly one tracked directory returns that
\* branch's list as it is.
SingleDirectoryShortcut ==
  (queryAll.pc = "resolved" /\ Len(queryAll.directories) = 1)
  => queryAll.result = queryAll.branches[1].result

\* The single backend's list is not score-descending and comes back as is.
SingleDirectoryWitness ==
  /\ queryAll.pc = "resolved"
  /\ Len(queryAll.directories) = 1
  /\ ~ScoreDescending(queryAll.result)

ConfigOf(c) == configPromises[c.root][c.promise]

\* C7: a call whose configuration resolved to custom search never obtains a
\* handle from the registry, its query is the configuration's search, and its
\* step out of the configuration await leaves the registry as it was.
CustomSearchBypass ==
  /\ [](\A c \in InFlight :
          (c.pc # "awaitConfig" /\ ConfigOf(c) = "custom")
          => c.handle = 0 /\ c.via # "backend"
             /\ (c.pc \in {"awaitCustom", "done"} => c.via = "custom"))
  /\ [][\A id \in CallIds :
          (/\ GetCall(id).pc = "awaitConfig"
           /\ ConfigOf(GetCall(id)) = "custom"
           /\ AfterConfig(id))
          => UNCHANGED <<fileSearchCache, handles>>]_vars

\* A custom search is in flight for a directory the registry does not know.
CustomSearchWitness ==
  \E c \in InFlight :
    /\ c.pc = "awaitCustom"
    /\ ConfigOf(c) = "custom"
    /\ handles[c.root] = <<>>

Queried == {d \in Dirs : configPromises[d] # <<>>}

\* C8: the cache never exceeds its capacity; a direct query for a directory
\* without an entry, made while the cache is full, evicts exactly the entry
\* at the least-recently-used end and logs exactly one error, for that key;
\* nothing is logged while at most CacheMax distinct directories were queried.
CapacityBound ==
  /\ [](Len(searchConfigCache) <= CacheMax)
  /\ [](errorLog = evictions)
  /\ [](Cardinality(Queried) <= CacheMax => \A d \in Dirs : errorLog[d] = 0)
  /\ [][\A c \in Slots, d \in Dirs :
          (/\ ~Cached(d)
           /\ Len(searchConfigCache) = CacheMax
           /\ calls[c].pc = "idle"
           /\ calls'[c].pc = "awaitConfig"
           /\ calls'[c].root = d)
          => LET lru == searchConfigCache[Len(searchConfigCache)].key
             IN  /\ CacheKeys(searchConfigCache') =
                      (CacheKeys(searchConfigCache) \ {lru}) \cup {d}
                 /\ errorLog' = [errorLog EXCEPT ![lru] = @ + 1]]_vars

\* The cache is full after an eviction: one key was logged and dropped,
\* and a directory queried before it is still cached with its first promise.
CapacityWitness ==
  /\ Len(searchConfigCache) = CacheMax
  /\ \E d \in Dirs : errorLog[d] = 1 /\ ~Cached(d)
  /\ \E d \in Dirs : Cached(d) /\ CachedValue(d) = 1 /\ Cardinality(Queried) > CacheMax

\* C9: getSearchConfig is invoked for a directory only when its entry is
\* absent: once per eviction plus once for the entry now cached; a query that
\* finds the entry takes the cached promise and invokes nothing.
CacheReuse ==
  /\ [](\A d \in Dirs :
          Len(configPromises[d]) = evictions[d] + (IF Cached(d) THEN 1 ELSE 0))
  /\ [][\A c \in Slots, d \in Dirs :
          (/\ Cached(d)
           /\ calls[c].pc = "idle"
           /\ calls'[c].pc = "awaitConfig"
           /\ calls'[c].root = d)
          => /\ configPromises' = configPromises
             /\ calls'[c].promise = CachedValue(d)]_vars
  /\ [][queryAll.pc = "idle" /\ queryAll'.pc = "running"
          => \A i \in 1..Len(queryAll'.branches) :
               LET d == queryAll'.branches[i].root
               IN  (Cached(d) /\ Len(searchConfigCache) < CacheMax)
                   => /\ configPromises'[d] = configPromises[d]
                      /\ queryAll'.branches[i].promise = CachedValue(d)]_vars

\* A later query, direct or a queryAll branch, awaits a configuration that
\* an earlier query resolved and used to build the directory's backend.
CacheReuseWitness ==
  \E d \in Dirs :
    /\ configPromises[d] = <<"default">>
    /\ handles[d] # <<>>
    /\ \E c \in Awaiting(d) : c.promise = 1
    /\ \E b \in Branches : b.root = d /\ b.pc = "awaitConfig"

\* C10: a removal changes neither the cache nor the promises, and a query
\* issued after the removal of a directory whose entry was never evicted
\* awaits the one promise getSearchConfig ever returned for it.
DisposeKeepsConfig ==
  /\ [][\A d \in Dirs :
          (fileSearchCache[d] # 0 /\ fileSearchCache'[d] = 0
           /\ handles'[d][fileSearchCache[d]] = "disposed")
          => /\ searchConfigCache' = searchConfigCache
             /\ configPromises' = configPromises]_vars
  /\ [](\A d \in Dirs : (Removed(d) /\ evictions[d] = 0) => Cached(d))
  /\ [](\A c \in InFlight :
          (c.afterRemove /\ evictions[c.root] = 0)
          => c.promise = 1 /\ Len(configPromises[c.root]) = 1)

\* A query issued after a removal awaits the directory's first promise.
DisposeKeepsConfigWitness ==
  \E c \in InFlight :
    /\ c.afterRemove
    /\ c.pc = "awaitConfig"
    /\ c.promise = 1
    /\ configPromises[c.root] = <<"default">>


\* Handles of d in a given state.
HandlesIn(d, states) == {h \in 1..Len(handles[d]) : handles[d][h] \in states}

DisposalIdempotent ==
  /\ \A d \in Dirs : HandlesIn(d, {"disposedTwice"}) = {}
  /\ \A d \in Dirs : ENABLED DisposeFuzzySearch(d)
  /\ \A d \in Dirs :
       fileSearchCache[d] = 0 => ~ENABLED (DisposeFuzzySearch(d) /\ vars' # vars)

\* The only handle of a directory was disposed, nothing is in flight: a
\* second removal finds no handle.
DisposalIdempotentWitness ==
  \E d \in Dirs :
    /\ handles[d] = <<"disposed">>
    /\ fileSearchCache[d] = 0
    /\ InFlight = {}


\* C13: a call holds a handle only if its configuration had resolved to the
\* default strategy; it has called query only on a handle whose construction
\* had succeeded; a call whose configuration rejected or whose backend
\* failed to construct has called no query.
QueryOrdering ==
  \A c \in InFlight :
    /\ c.handle # 0 => ConfigOf(c) = "default"
    /\ c.via = "backend" =>
         /\ c.handle # 0
         /\ handles[c.root][c.handle] \in {"live", "disposed"}
    /\ c.pc = "awaitQuery" => c.via = "backend"
    /\ (ConfigOf(c) = "rejected"
          \/ (c.handle # 0 /\ handles[c.root][c.handle] = "failed"))
       => c.via = "none"

\* A call has gone through the configuration and the backend acquisition
\* and awaits the query on the live handle.
QueryOrderingWitness ==
  \E c \in InFlight :
    /\ c.pc = "awaitQuery"
    /\ ConfigOf(c) = "default"
    /\ handles[c.root][c.handle] = "live"

\* C14: a call whose configuration promise rejected does nothing but fail:
\* it holds no handle and has called no search, its only step is the failure,
\* which it can always take, and that step leaves the registry and every
\* other call as they were.
ConfigRejection ==
  /\ [](\A c \in InFlight :
          ConfigOf(c) = "rejected"
          => c.pc \in {"awaitConfig", "failed"} /\ c.handle = 0 /\ c.via = "none")
  /\ [](\A id \in CallIds :
          (GetCall(id).pc = "awaitConfig" /\ ConfigOf(GetCall(id)) = "rejected")
          => ENABLED AfterConfig(id))
  /\ [][\A c \in Slots :
          (calls[c].pc = "awaitConfig" /\ ConfigOf(calls[c]) = "rejected"
             /\ calls'[c] # calls[c])
          => /\ calls' = [calls EXCEPT ![c] = IdleCall]
             /\ UNCHANGED <<fileSearchCache, handles, queryAll>>]_vars
  /\ [][\A i \in 1..Len(queryAll.branches) :
          LET b == queryAll.branches[i]
          IN  (b.pc = "awaitConfig" /\ ConfigOf(b) = "rejected"
                 /\ queryAll'.branches[i] # b)
              => /\ queryAll' = [queryAll EXCEPT !.branches[i].pc = "failed"]
                 /\ UNCHANGED <<fileSearchCache, handles, calls>>]_vars

\* Two calls await the one promise of a directory, which has rejected.
ConfigRejectionWitness ==
  \E d \in Dirs :
    /\ configPromises[d] = <<"rejected">>
    /\ \A c \in Slots : calls[c].root = d /\ calls[c].pc = "awaitConfig"


\* The directories the registry lists: those with a live handle.
Listed == {d \in Dirs : fileSearchCache[d] # 0 /\ handles[d][fileSearchCache[d]] = "live"}

\* C15: queryAll has one branch per directory listed at the moment it was
\* called, no directory twice, each branch with that directory as its root,
\* the caller's queryString and ignoredNames and neither queryRoot nor
\* smartCase; the directories of a call in progress never change.
FanOutShape ==
  /\ [](queryAll.pc # "idle" =>
          /\ Len(queryAll.branches) = Len(queryAll.directories)
          /\ \A i, j \in 1..Len(queryAll.directories) :
               i # j => queryAll.directories[i] # queryAll.directories[j]
          /\ \A i \in 1..Len(queryAll.branches) :
               /\ queryAll.branches[i].root = queryAll.directories[i]
               /\ queryAll.branches[i].request =
                    [queryString  |-> queryAll.queryString,
                     ignoredNames |-> queryAll.ignoredNames,
                     queryRoot    |-> 0,
                     smartCase    |-> "undefined"])
  /\ [][(queryAll.pc = "idle" /\ queryAll'.pc = "running")
         => Items(queryAll'.directories) = Listed]_vars
  /\ [][(queryAll.pc # "idle" /\ queryAll'.pc # "idle")
         => /\ queryAll'.directories = queryAll.directories
            /\ queryAll'.queryString = queryAll.queryString
            /\ queryAll'.ignoredNames = queryAll.ignoredNames
            /\ Len(queryAll'.branches) = Len(queryAll.branches)]_vars

\* A directory became listed after queryAll was called: the call in
\* progress has a branch for the directory listed before, none for the new.
FanOutShapeWitness ==
  /\ queryAll.pc = "running"
  /\ Len(queryAll.branches) = 1
  /\ \E d \in Listed : d \notin Items(queryAll.directories)


\* C16: a direct query for a directory whose entry was evicted and is not
\* cached invokes getSearchConfig again, awaits the new promise and leaves it
\* cached at the front; a call in flight keeps the promise it obtained, a
\* settled promise keeps its outcome, and a call whose promise has settled
\* can always resume, cached or not.
ReResolution ==
  /\ [][\A c \in Slots :
          LET d == calls'[c].root
          IN  (calls[c].pc = "idle" /\ calls'[c].pc = "awaitConfig"
                 /\ evictions[d] > 0 /\ ~Cached(d))
              => /\ Len(configPromises'[d]) = Len(configPromises[d]) + 1
                 /\ calls'[c].promise = Len(configPromises'[d])
                 /\ Head(searchConfigCache') =
                      [key |-> d, value |-> Len(configPromises'[d])]]_vars
  /\ [][\A c \in Slots :
          (calls[c].pc # "idle" /\ calls'[c].pc # "idle")
          => calls'[c].root = calls[c].root /\ calls'[c].promise = calls[c].promise]_vars
  /\ [][\A d \in Dirs : \A k \in 1..Len(configPromises[d]) :
          configPromises[d][k] # "pending"
          => configPromises'[d][k] = configPromises[d][k]]_vars
  /\ [](\A id \in CallIds :
          (GetCall(id).pc = "awaitConfig" /\ ConfigOf(GetCall(id)) # "pending")
          => ENABLED AfterConfig(id))

\* A call that obtained the first promise of a directory before its entry
\* was evicted has resumed from it, while a later call awaits the second
\* promise, which is the one cached.
ReResolutionWitness ==
  \E d \in Dirs : \E c1, c2 \in Slots :
    /\ calls[c1].root = d /\ calls[c1].promise = 1 /\ calls[c1].pc = "awaitBackend"
    /\ calls[c2].root = d /\ calls[c2].promise = 2 /\ calls[c2].pc = "awaitConfig"
    /\ Cached(d) /\ CachedValue(d) = 2


\* C17: when every promise eventually settles, every direct queryFuzzyFile
\* eventually returns or throws, every queryAll eventually settles and its
\* branches run to their end, and a removal can be taken in every state,
\* whatever is in flight.
Termination ==
  /\ \A c \in Slots : (calls[c].pc # "idle") ~> (calls[c].pc = "idle")
  /\ (queryAll.pc = "running") ~> Settled
  /\ (queryAll.pc # "idle") ~> (queryAll.pc = "idle")
  /\ [](\A d \in Dirs : ENABLED DisposeFuzzySearch(d))

\* queryAll resolved although the handle its branch queried was disposed
\* while the query was in flight.
TerminationWitness ==
  /\ queryAll.pc = "resolved"
  /\ \E b \in Branches : b.via = "backend" /\ handles[b.root][b.handle] = "disposed"


\* C18: a call that constructs a backend for a directory of which a handle
\* was disposed was issued after a removal of that directory: no call
\* issued before the removal brings the directory back.
RemovalFinal ==
  [][\A d \in Dirs :
       (Removed(d) /\ Len(handles'[d]) > Len(handles[d]))
       => /\ \A c \in Slots : calls'[c] # calls[c] => calls[c].afterRemove
          /\ \A i \in 1..Len(queryAll.branches) :
               queryAll'.branches[i] # queryAll.branches[i]
               => queryAll.branches[i].afterRemove]_vars

\* C19: a queryAll called while the registry lists no directory has no
\* branch and changes neither the cache nor the promises nor the registry;
\* it never rejects, it can settle at once, and its only step resolves it
\* with the empty list, again changing nothing else.
EmptyFanOut ==
  /\ [][(queryAll.pc = "idle" /\ queryAll'.pc = "running" /\ Listed = {})
         => /\ queryAll'.branches = <<>>
            /\ UNCHANGED <<searchConfigCache, configPromises, evictions, errorLog,
                           fileSearchCache, handles, calls>>]_vars
  /\ []((queryAll.pc # "idle" /\ queryAll.branches = <<>>)
         => /\ queryAll.pc # "rejected"
            /\ queryAll.result = <<>>
            /\ queryAll.pc = "running" => ENABLED QueryAllSettle)
  /\ [][(queryAll.pc = "running" /\ queryAll.branches = <<>> /\ queryAll' # queryAll)
         => /\ queryAll' = [queryAll EXCEPT !.pc = "resolved"]
            /\ UNCHANGED <<searchConfigCache, configPromises, evictions, errorLog,
                           fileSearchCache, handles, calls>>]_vars

\* queryAll resolved with the empty list and without a branch while the
\* cache holds the configuration of a directory queried before.
EmptyFanOutWitness ==
  /\ queryAll.pc = "resolved"
  /\ queryAll.branches = <<>>
  /\ queryAll.result = <<>>
  /\ searchConfigCache # <<>>

\* C20: a handle exists only for a directory one of whose configurations
\* resolved to the default strategy; the directories queryAll enumerates
\* were listed by the registry when it was called, so a directory whose
\* configurations are all custom is never among them; a resolved queryAll
\* holds results of enumerated directories only.
EnumeratesBackendsOnly ==
  /\ [](\A d \in Dirs :
          handles[d] # <<>> => "default" \in Items(configPromises[d]))
  /\ [](\A d \in Items(queryAll.directories) :
          handles[d] # <<>> /\ "default" \in Items(configPromises[d]))
  /\ [](queryAll.pc = "resolved"
         => \A r \in Items(queryAll.result) : r.root \in Items(queryAll.directories))
  /\ [][(queryAll.pc = "idle" /\ queryAll'.pc = "running")
         => Items(queryAll'.directories) \subseteq Listed]_vars

\* queryAll resolved with results of the directory that has a backend,
\* none of the directory that was queried through custom search only.
EnumeratesBackendsOnlyWitness ==
  /\ queryAll.pc = "resolved"
  /\ queryAll.result # <<>>
  /\ \E d \in Dirs :
       /\ configPromises[d] = <<"custom">>
       /\ d \notin Items(queryAll.directories)

====
